---- MODULE Spec2Model ----
(***************************************************************************)
(* TradeMate: the batch quote endpoint (backend/routes/finnhubRoutes.js,   *)
(* router.post("/quotes")) and the polling client that consumes it         *)
(* (dashboard/src/components/WatchList.jsx, fetchLivePrices).              *)
(*                                                                         *)
(* Spec      one POST /quotes request: fan-out of per-symbol guards, the   *)
(*           per-item and overall timers, the upstream callbacks.          *)
(* PollSpec  one polling session of the WatchList component.               *)
(*                                                                         *)
(* Optional JavaScript values (a property that may be absent, undefined)   *)
(* are sequences of length 0 or 1: <<>> is "absent", <<v>> is "v".         *)
(* Strings that the code searches with includes() are sequences of tokens. *)
(***************************************************************************)
EXTENDS Integers, Sequences, FiniteSets, TLC

VARIABLES
    finnhubClient,  \* finnhubRoutes.js:6   TRUE: configured, FALSE: null
    pc,             \* position of the POST /quotes handler
    reqBody,        \* finnhubRoutes.js:79 <<>> before the request, <<req.body>> after
    symbols,        \* finnhubRoutes.js:86  the requested array, once fanned out
    clock,          \* ms elapsed since the handler dispatched the fan-out
    timer,          \* finnhubRoutes.js:97  per index: "armed", "fired", "cleared"
    promise,        \* finnhubRoutes.js:96  per index: <<>> pending, <<entry>> resolved
    call,           \* finnhubRoutes.js:101 per index: "inflight", "returned"
    delivered,      \* history: per index, <<>> or <<o>>, the (error, data) called back
    first,          \* history: per index, which event came first
    settles,        \* history: per index, how often the promise changed value
    overall,        \* finnhubRoutes.js:122 "unset", "armed", "fired"
    response,       \* <<>> none sent, <<[status, quotes]>> the response sent
    respTime,       \* history: clock when the response was sent
    errorLog,       \* console.error lines of finnhubRoutes.js:106
    upstreamCalls,  \* history: number of finnhubClient.quote calls issued
    session,        \* WatchList effect: "init", "running", "stopped"
    isMounted,      \* WatchList.jsx:31
    intervalOn,     \* WatchList.jsx:93  the setInterval timer is registered
    nextTick,       \* time at which the interval timer fires next
    now,            \* ms elapsed since the component mounted
    started,        \* number of cycles started (requests issued)
    req,            \* WatchList.jsx:46  per cycle: "pending", "settled"
    reqStart,       \* per cycle: time at which its request was issued
    abortArmed,     \* WatchList.jsx:44  cycles whose abort timer is armed
    timeoutId,      \* WatchList.jsx:32  <<>> null, <<k>> the abort timer of cycle k
    livePrices,     \* WatchList.jsx:26  symbol -> {price, change, percentChange, isDown}
    isLoadingPrices,\* WatchList.jsx:27
    lastMerged,     \* history: per symbol, the cycle that last wrote its entry (0: none)
    prevPrices,     \* history: livePrices before the last handled response
    lastResp,       \* history: <<>> or <<r>>, the last response handled
    lateHandled,    \* history: responses handled after the session stopped
    startedAtStop,  \* history: value of started when the session stopped
    succeeded       \* history: symbols for which a handled response carried data

srvVars == <<finnhubClient, pc, reqBody, symbols, clock, timer, promise, call,
             delivered, first,
             settles, overall, response, respTime, errorLog, upstreamCalls>>

pollVars == <<session, isMounted, intervalOn, nextTick, now, started, req,
              reqStart, abortArmed, timeoutId, livePrices, isLoadingPrices,
              lastMerged, prevPrices, lastResp, lateHandled, startedAtStop,
              succeeded>>

-----------------------------------------------------------------------------
(* Bounds and program constants                                            *)

MaxSymbols == 2

\* Mutant: a per-item deadline beyond the overall deadline.
PerItemTimeoutLong == 2 * 2000

PerItemTimeoutMs == 2000

OverallTimeoutMs == 3000

Symbols == {"AAPL", "MSFT"}

\* Instants at which the clock is observed: the latencies of spec section 8
\* (50, 100, 3500 ms) and the two deadlines.
Instants == {0, 50, 100, PerItemTimeoutMs, OverallTimeoutMs, 3500}

Max(S) == CHOOSE x \in S : \A y \in S : y <= x

Min(S) == CHOOSE x \in S : \A y \in S : x <= y

-----------------------------------------------------------------------------
(* Values                                                                  *)

Absent == <<>>

Some(v) == <<v>>

\* Mutant: a presence test in place of the truthiness test.
TruthyIfPresent(n) == n # Absent

\* JavaScript truthiness of an optional number: undefined and 0 are falsy.
Truthy(n) == n # Absent /\ n[1] # 0

\* Upstream payloads {c, d, dp}; each field may be missing.
Payloads ==
    { [c |-> Some(150), d |-> Some(1),  dp |-> Some(1)],
      [c |-> Some(150), d |-> Absent,   dp |-> Absent],
      [c |-> Some(160), d |-> Some(-1), dp |-> Some(-1)],
      [c |-> Some(0),   d |-> Some(0),  dp |-> Some(0)],
      [c |-> Absent,    d |-> Some(1),  dp |-> Some(1)] }

\* Messages, as token sequences; <<>> is the empty string.
Messages == { <<"Not Found">>, <<"Invalid", "symbol">>, <<"Rate", "limit">>, <<>> }

\* Error values handed to the callback.  hasMessage = FALSE is an error
\* value without a message property: line 108 allows for a missing message
\* (error.message || "Failed to fetch"), line 105 dereferences it.
Errors ==
    { [hasMessage |-> TRUE, message |-> m] : m \in Messages }
    \cup { [hasMessage |-> FALSE, message |-> <<>>] }

\* The (error, data) pairs an upstream callback can deliver.
Outcomes ==
    { [error |-> Some(e), data |-> Absent] : e \in Errors }
    \cup { [error |-> Absent, data |-> Some(p)] : p \in Payloads }
    \cup { [error |-> Absent, data |-> Absent] }

\* String.prototype.includes on a token sequence.
Includes(msg, tok) == \E k \in DOMAIN msg : msg[k] = tok

RequestTimeout == <<"Request timeout">>

\* One entry of the quotes array: {symbol, data?, error?}.
Entry(s, d, e) == [symbol |-> s, data |-> d, error |-> e]

\* Request bodies: req.body undefined, or an object whose symbols
\* property is undefined, a non-array (a string), or an array.
SymbolArrays == UNION { [1..n -> Symbols] : n \in 0..MaxSymbols }

Bodies ==
    { [present |-> FALSE, kind |-> "undefined", arr |-> <<>>] }
    \cup { [present |-> TRUE, kind |-> "undefined", arr |-> <<>>],
           [present |-> TRUE, kind |-> "string", arr |-> <<>>] }
    \cup { [present |-> TRUE, kind |-> "array", arr |-> a] : a \in SymbolArrays }

Response(st, q) == [status |-> st, quotes |-> q]

-----------------------------------------------------------------------------
(* POST /quotes                                                            *)

Indices == DOMAIN symbols

\* Promise resolve: only a pending promise takes the value.
Resolve(p, v) == IF p = Absent THEN Some(v) ELSE p

\* finnhubRoutes.js:80-83, the 503 body.
UnavailableEntry(s) == Entry(s, Absent, Some(<<"API key not configured">>))

\* finnhubRoutes.js:127-130, the 504 body.
TimeoutEntry(s) == Entry(s, Absent, Some(RequestTimeout))

\* Lines 82 and 129: symbols.map over the requested array.
UnavailableQuotes(arr) == [k \in DOMAIN arr |-> UnavailableEntry(arr[k])]

TimeoutQuotes(arr) == [k \in DOMAIN arr |-> TimeoutEntry(arr[k])]

\* Promise.all(quotePromises): settled once every promise is.
AllSettled(p) == \A k \in DOMAIN p : p[k] # Absent

\* Mutant: the join hands the results back in reverse order.
JoinResultsReversed(p) == [k \in DOMAIN p |-> p[Len(p) + 1 - k][1]]

JoinResults(p) == [k \in DOMAIN p |-> p[k][1]]

Respond(r) ==
    /\ response' = Some(r)
    /\ respTime' = clock
    /\ pc' = "done"

\* The continuation of the await at line 120 once the race settles with the
\* joined results (it runs in the microtasks of the step that settles the
\* last guard).
AfterSettle(p) ==
    IF pc = "waiting" /\ AllSettled(p)
    THEN Respond(Response(200, Some(JoinResults(p))))
    ELSE UNCHANGED <<response, respTime, pc>>

\* Line 78: !finnhubClient
\* Mutant: the handler without the client check of line 78.
ClientNeverUnavailable == FALSE

ClientUnavailable == ~finnhubClient

\* Mutant: line 88 without the length test.
InvalidSymbolsAnyArray(body) == body.kind # "array"

\* Line 88: !symbols || !Array.isArray(symbols) || symbols.length === 0
InvalidSymbols(body) == body.kind # "array" \/ Len(body.arr) = 0

\* Handler entry up to the fan-out (lines 77-123) and the catch (134-137).
Request(body) ==
    /\ pc = "idle"
    /\ reqBody' = Some(body)
    /\ clock' = 0
    /\ IF ClientUnavailable
       THEN /\ IF body.present /\ body.kind = "string"
               THEN Respond(Response(500, Absent))
               ELSE Respond(Response(503, Some(UnavailableQuotes(body.arr))))
            /\ UNCHANGED <<symbols, timer, promise, call, delivered, first,
                           settles, overall, upstreamCalls>>
       ELSE IF ~body.present
       THEN /\ Respond(Response(500, Absent))
            /\ UNCHANGED <<symbols, timer, promise, call, delivered, first,
                           settles, overall, upstreamCalls>>
       ELSE IF InvalidSymbols(body)
       THEN /\ Respond(Response(400, Absent))
            /\ UNCHANGED <<symbols, timer, promise, call, delivered, first,
                           settles, overall, upstreamCalls>>
       ELSE /\ symbols' = body.arr
            /\ timer' = [k \in DOMAIN body.arr |-> "armed"]
            /\ promise' = [k \in DOMAIN body.arr |-> Absent]
            /\ call' = [k \in DOMAIN body.arr |-> "inflight"]
            /\ delivered' = [k \in DOMAIN body.arr |-> Absent]
            /\ first' = [k \in DOMAIN body.arr |-> "none"]
            /\ settles' = [k \in DOMAIN body.arr |-> 0]
            /\ upstreamCalls' = Len(body.arr)
            /\ overall' = "armed"
            /\ pc' = "waiting"
            /\ UNCHANGED <<response, respTime>>
    /\ UNCHANGED <<finnhubClient, errorLog>>
    /\ UNCHANGED pollVars

\* Mutant: the callback resolves with the payload without testing data.c.
CallbackResultUnchecked(s, o) ==
    IF o.error # Absent
    THEN IF ~o.error[1].hasMessage
         THEN Absent
         ELSE Some(Entry(s, Absent,
                  Some(IF o.error[1].message # <<>> THEN o.error[1].message
                       ELSE <<"Failed to fetch">>)))
    ELSE Some(Entry(s, o.data, Absent))

\* What the callback of lines 101-115 resolves the promise with; Absent when
\* the callback throws before it reaches a resolve (error.message undefined
\* at line 105).
CallbackResult(s, o) ==
    IF o.error # Absent
    THEN IF ~o.error[1].hasMessage
         THEN Absent
         ELSE Some(Entry(s, Absent,
                  Some(IF o.error[1].message # <<>> THEN o.error[1].message
                       ELSE <<"Failed to fetch">>)))
    ELSE IF o.data # Absent /\ Truthy(o.data[1].c)
    THEN Some(Entry(s, o.data, Absent))
    ELSE Some(Entry(s, Absent, Some(<<"No price data available">>)))

\* Lines 105-107: which errors are written to the error log.
\* Mutant: every upstream error with a message is logged.
LoggedAll(o) ==
    /\ o.error # Absent
    /\ o.error[1].hasMessage

Logged(o) ==
    /\ o.error # Absent
    /\ o.error[1].hasMessage
    /\ ~Includes(o.error[1].message, "Not Found")
    /\ ~Includes(o.error[1].message, "Invalid")

\* clearTimeout(timeout), line 102.
ClearTimeout(t) == IF t = "armed" THEN "cleared" ELSE t

\* The upstream client invokes the callback of call i (lines 101-115).
QuoteCallback(i, o) ==
    /\ pc \in {"waiting", "done"}
    /\ i \in Indices
    /\ call[i] = "inflight"
    /\ call' = [call EXCEPT ![i] = "returned"]
    /\ delivered' = [delivered EXCEPT ![i] = Some(o)]
    /\ timer' = [timer EXCEPT ![i] = ClearTimeout(@)]
    /\ first' = [first EXCEPT ![i] = IF @ = "none" THEN "callback" ELSE @]
    /\ errorLog' = IF Logged(o)
                   THEN errorLog \cup {<<symbols[i], o.error[1].message>>}
                   ELSE errorLog
    /\ LET r == CallbackResult(symbols[i], o)
           p == IF r = Absent THEN promise
                ELSE [promise EXCEPT ![i] = Resolve(@, r[1])]
       IN /\ promise' = p
          /\ settles' = [settles EXCEPT ![i] = IF p[i] # promise[i] THEN @ + 1 ELSE @]
          /\ AfterSettle(p)
    /\ UNCHANGED <<finnhubClient, reqBody, symbols, clock, overall, upstreamCalls>>
    /\ UNCHANGED pollVars

ItemTimerDue(i) == timer[i] = "armed" /\ clock >= PerItemTimeoutMs

OverallTimerDue == overall = "armed" /\ clock >= OverallTimeoutMs

\* The per-item timer of lines 97-99 fires.
ItemTimeout(i) ==
    /\ pc \in {"waiting", "done"}
    /\ i \in Indices
    /\ ItemTimerDue(i)
    /\ timer' = [timer EXCEPT ![i] = "fired"]
    /\ first' = [first EXCEPT ![i] = IF @ = "none" THEN "timer" ELSE @]
    /\ LET p == [promise EXCEPT ![i] = Resolve(@, TimeoutEntry(symbols[i]))]
       IN /\ promise' = p
          /\ settles' = [settles EXCEPT ![i] = IF p[i] # promise[i] THEN @ + 1 ELSE @]
          /\ AfterSettle(p)
    /\ UNCHANGED <<finnhubClient, reqBody, symbols, clock, call, delivered,
                   overall, errorLog, upstreamCalls>>
    /\ UNCHANGED pollVars

\* Mutant: the race of line 120 without its overall timer.
OverallTimeoutNeverSettles ==
    /\ pc \in {"waiting", "done"}
    /\ overall = "armed" /\ clock >= OverallTimeoutMs
    /\ overall' = "fired"
    /\ UNCHANGED <<finnhubClient, pc, reqBody, symbols, clock, timer, promise,
                   call, delivered, first, settles, response, respTime,
                   errorLog, upstreamCalls>>
    /\ UNCHANGED pollVars

\* The overall timer of line 122 fires; timers run in order of expiry.  If
\* the race is still undecided it settles with null (lines 125-131).
OverallTimeout ==
    /\ pc \in {"waiting", "done"}
    /\ OverallTimerDue
    /\ ~ \E i \in Indices : ItemTimerDue(i) /\ PerItemTimeoutMs <= OverallTimeoutMs
    /\ overall' = "fired"
    /\ IF pc = "waiting"
       THEN Respond(Response(504, Some(TimeoutQuotes(symbols))))
       ELSE UNCHANGED <<response, respTime, pc>>
    /\ UNCHANGED <<finnhubClient, reqBody, symbols, clock, timer, promise, call,
                   delivered, first, settles, errorLog, upstreamCalls>>
    /\ UNCHANGED pollVars

\* Time passes to the next instant; a timer that is due runs first.
AdvanceClock ==
    /\ pc \in {"waiting", "done"}
    /\ symbols # <<>>
    /\ clock < Max(Instants)
    /\ ~ \E i \in Indices : ItemTimerDue(i)
    /\ ~ OverallTimerDue
    /\ clock' = Min({t \in Instants : t > clock})
    /\ UNCHANGED <<finnhubClient, pc, reqBody, symbols, timer, promise, call,
                   delivered, first, settles, overall, response, respTime,
                   errorLog, upstreamCalls>>
    /\ UNCHANGED pollVars

-----------------------------------------------------------------------------
(* The polling client: WatchList.jsx, the effect of lines 30-104          *)

MaxCycles == 3

IntervalMs == 10000

RequestTimeoutMs == 3000

\* watchlist.map(stock => stock.name), de-duplicated (line 40).
WatchSymbols == <<"AAPL", "MSFT">>

\* Instants at which the client's clock is observed.
PollInstants ==
    { k * IntervalMs + d : k \in 0..MaxCycles, d \in {0, 1000, RequestTimeoutMs} }

Cycles == 1..started

\* The entries the endpoint can return for symbol s (CallbackResult,
\* TimeoutEntry): data with a truthy c, or an error.
EntriesFor(s) ==
    { Entry(s, Some(p), Absent) : p \in {q \in Payloads : Truthy(q.c)} }
    \cup { Entry(s, Absent, Some(RequestTimeout)),
           Entry(s, Absent, Some(<<"Not Found">>)) }

Envelopes ==
    { e \in [DOMAIN WatchSymbols -> UNION {EntriesFor(WatchSymbols[k]) : k \in DOMAIN WatchSymbols}] :
        \A k \in DOMAIN WatchSymbols : e[k].symbol = WatchSymbols[k] }

\* What the await of line 46 yields: a 2xx response with or without a
\* quotes array, or a rejection (non-2xx status, network error).
HttpResults ==
    { [ok |-> TRUE, quotes |-> Some(e)] : e \in Envelopes }
    \cup { [ok |-> TRUE, quotes |-> Absent], [ok |-> FALSE, quotes |-> Absent] }

Rejected == [ok |-> FALSE, quotes |-> Absent]

\* Line 60: data && !error && data.c
IsSuccess(q) == q.data # Absent /\ q.error = Absent /\ Truthy(q.data[1].c)

OrZero(n) == IF Truthy(n) THEN n[1] ELSE 0

\* Lines 62-67.
PriceOf(q) ==
    [price |-> OrZero(q.data[1].c),
     change |-> OrZero(q.data[1].d),
     percentChange |-> OrZero(q.data[1].dp),
     isDown |-> OrZero(q.data[1].d) < 0]

ZeroPrice == [price |-> 0, change |-> 0, percentChange |-> 0, isDown |-> FALSE]

\* Mutant: the forEach writes an entry for every quote, zero for a failure.
PriceMapOfAll(quotes) ==
    [s \in {quotes[k].symbol : k \in DOMAIN quotes} |->
        LET succ == {k \in DOMAIN quotes :
                        quotes[k].symbol = s /\ quotes[k].data # Absent}
        IN IF succ = {} THEN ZeroPrice
           ELSE [price |-> quotes[Max(succ)].data[1].c[1], change |-> 0,
                 percentChange |-> 0, isDown |-> FALSE]]

\* Lines 56-70: the priceMap built by the forEach (a later entry of the
\* same symbol overwrites an earlier one).
PriceMap(quotes) ==
    LET succ == {k \in DOMAIN quotes : IsSuccess(quotes[k])}
        keys == {quotes[k].symbol : k \in succ}
    IN [s \in keys |-> PriceOf(quotes[Max({k \in succ : quotes[k].symbol = s})])]

SuccessCount(quotes) == Cardinality({k \in DOMAIN quotes : IsSuccess(quotes[k])})

\* Mutant: line 55 without the isMounted test.
MayMergeUnmounted(r) == r.ok /\ r.quotes # Absent

\* Line 55: isMounted && response.data && response.data.quotes
MayMerge(r) == isMounted /\ r.ok /\ r.quotes # Absent

\* Line 72: setLivePrices is called only if some entry succeeded.
DoesMerge(r) == MayMerge(r) /\ SuccessCount(r.quotes[1]) > 0

\* Mutant: setLivePrices without the successCount test of line 72.
MergedAlways(r) == IF MayMerge(r) THEN PriceMap(r.quotes[1]) ELSE livePrices

\* Mutant: the success map is spread over the earlier cache, entry by entry.
MergedEntryByEntry(r) ==
    IF DoesMerge(r)
    THEN [s \in DOMAIN livePrices \cup DOMAIN PriceMap(r.quotes[1]) |->
            IF s \in DOMAIN PriceMap(r.quotes[1])
            THEN PriceMap(r.quotes[1])[s] ELSE livePrices[s]]
    ELSE livePrices

\* Lines 55-75: the value of livePrices after the response r is handled.
Merged(r) == IF DoesMerge(r) THEN PriceMap(r.quotes[1]) ELSE livePrices

\* fetchLivePrices up to the await (lines 34-53); the caller has checked
\* isMounted.
IssueRequest ==
    /\ isLoadingPrices' = TRUE
    /\ started' = started + 1
    /\ req' = req @@ (started + 1 :> "pending")
    /\ reqStart' = reqStart @@ (started + 1 :> now)
    /\ abortArmed' = abortArmed \cup {started + 1}
    /\ timeoutId' = Some(started + 1)

\* Mutant: the effect without the immediate fetch of line 90.
StartWithoutFetch ==
    /\ session = "init"
    /\ session' = "running"
    /\ isMounted' = TRUE
    /\ intervalOn' = TRUE
    /\ nextTick' = now + IntervalMs
    /\ UNCHANGED <<isLoadingPrices, started, req, reqStart, abortArmed,
                   timeoutId, now, livePrices, lastMerged, prevPrices,
                   lastResp, lateHandled, startedAtStop, succeeded>>
    /\ UNCHANGED srvVars

\* The effect body (lines 31-97): first fetch, then setInterval.
Start ==
    /\ session = "init"
    /\ session' = "running"
    /\ isMounted' = TRUE
    /\ IssueRequest
    /\ intervalOn' = TRUE
    /\ nextTick' = now + IntervalMs
    /\ UNCHANGED <<now, livePrices, lastMerged, prevPrices, lastResp,
                   lateHandled, startedAtStop, succeeded>>
    /\ UNCHANGED srvVars

\* The interval callback (lines 93-97).
Tick ==
    /\ intervalOn
    /\ now >= nextTick
    /\ started < MaxCycles
    /\ nextTick' = nextTick + IntervalMs
    /\ IF isMounted
       THEN IssueRequest
       ELSE UNCHANGED <<isLoadingPrices, started, req, reqStart, abortArmed,
                        timeoutId>>
    /\ UNCHANGED <<session, isMounted, intervalOn, now, livePrices, lastMerged,
                   prevPrices, lastResp, lateHandled, startedAtStop, succeeded>>
    /\ UNCHANGED srvVars

\* The symbols for which the response r carries an entry with data and
\* without error (a Success of the endpoint, finnhubRoutes.js:111).
DataSymbols(r) ==
    IF r.ok /\ r.quotes # Absent
    THEN { r.quotes[1][k].symbol : k \in
             {j \in DOMAIN r.quotes[1] :
                 r.quotes[1][j].data # Absent /\ r.quotes[1][j].error = Absent} }
    ELSE {}

\* clearTimeout(timeoutId) of lines 85 and 102.
ClearAbort(armed) == IF timeoutId = Absent THEN armed ELSE armed \ {timeoutId[1]}

\* The rest of fetchLivePrices once the await of cycle k settles with r:
\* the merge (lines 55-75), the catch (76-80) and the finally (81-86).
Settle(k, r) ==
    /\ req' = [req EXCEPT ![k] = "settled"]
    /\ livePrices' = Merged(r)
    /\ lastMerged' = [s \in Symbols |->
                        IF DoesMerge(r) /\ s \in DOMAIN Merged(r)
                        THEN k ELSE lastMerged[s]]
    /\ prevPrices' = livePrices
    /\ lastResp' = Some(r)
    /\ lateHandled' = IF session = "stopped" THEN lateHandled \cup {<<k, r>>}
                      ELSE lateHandled
    /\ isLoadingPrices' = IF isMounted THEN FALSE ELSE isLoadingPrices
    /\ abortArmed' = ClearAbort(abortArmed \ {k})
    /\ UNCHANGED <<session, isMounted, intervalOn, nextTick, now, started,
                   reqStart, timeoutId, startedAtStop>>
    /\ succeeded' = succeeded \cup DataSymbols(r)
    /\ UNCHANGED srvVars

\* Mutant: a request timeout longer than the polling interval.
RequestDeadlineLong(k) == reqStart[k] + IntervalMs + RequestTimeoutMs

\* The time by which the request of cycle k has settled: the abort timer of
\* line 44 and the axios timeout of line 51 both run out then.
RequestDeadline(k) == reqStart[k] + RequestTimeoutMs

RequestDue(k) == req[k] = "pending" /\ now >= RequestDeadline(k)

\* The response of cycle k arrives before its deadline.
ResponseArrives(k, r) ==
    /\ k \in Cycles
    /\ req[k] = "pending"
    /\ ~RequestDue(k)
    /\ Settle(k, r)

\* controller.abort() (line 44) or the axios timeout (line 51) rejects the
\* request of cycle k.
RequestTimesOut(k) ==
    /\ k \in Cycles
    /\ RequestDue(k)
    /\ Settle(k, Rejected)

\* Mutant: the effect returns no cleanup.
StopWithoutCleanup ==
    /\ session = "running"
    /\ session' = "stopped"
    /\ startedAtStop' = started
    /\ succeeded' = succeeded
    /\ UNCHANGED <<isMounted, intervalOn, abortArmed, nextTick, now, started,
                   req, reqStart, timeoutId, livePrices, isLoadingPrices,
                   lastMerged, prevPrices, lastResp, lateHandled>>
    /\ UNCHANGED srvVars

\* The effect cleanup (lines 99-103).
Stop ==
    /\ session = "running"
    /\ session' = "stopped"
    /\ isMounted' = FALSE
    /\ intervalOn' = FALSE
    /\ abortArmed' = ClearAbort(abortArmed)
    /\ startedAtStop' = started
    /\ succeeded' = succeeded
    /\ UNCHANGED <<nextTick, now, started, req, reqStart, timeoutId,
                   livePrices, isLoadingPrices, lastMerged, prevPrices,
                   lastResp, lateHandled>>
    /\ UNCHANGED srvVars

\* Time passes to the next instant; a timer that is due runs first.
AdvanceNow ==
    /\ session # "init"
    /\ now < Max(PollInstants)
    /\ ~ \E k \in Cycles : RequestDue(k)
    /\ ~ (intervalOn /\ now >= nextTick)
    /\ now' = Min({t \in PollInstants : t > now})
    /\ UNCHANGED <<session, isMounted, intervalOn, nextTick, started, req,
                   reqStart, abortArmed, timeoutId, livePrices,
                   isLoadingPrices, lastMerged, prevPrices, lastResp,
                   lateHandled, startedAtStop, succeeded>>
    /\ UNCHANGED srvVars

PollIdle ==
    /\ session = "init"
    /\ isMounted = FALSE
    /\ intervalOn = FALSE
    /\ nextTick = 0
    /\ now = 0
    /\ started = 0
    /\ req = <<>>
    /\ reqStart = <<>>
    /\ abortArmed = {}
    /\ timeoutId = Absent
    /\ livePrices = <<>>
    /\ isLoadingPrices = FALSE
    /\ lastMerged = [s \in Symbols |-> 0]
    /\ prevPrices = <<>>
    /\ lastResp = Absent
    /\ lateHandled = {}
    /\ startedAtStop = 0
    /\ succeeded = {}

SrvInit ==
    /\ finnhubClient \in BOOLEAN
    /\ pc = "idle"
    /\ reqBody = Absent
    /\ symbols = <<>>
    /\ clock = 0
    /\ timer = <<>>
    /\ promise = <<>>
    /\ call = <<>>
    /\ delivered = <<>>
    /\ first = <<>>
    /\ settles = <<>>
    /\ overall = "unset"
    /\ response = Absent
    /\ respTime = 0
    /\ errorLog = {}
    /\ upstreamCalls = 0

SrvIdle == SrvInit /\ finnhubClient = TRUE

Init == SrvInit /\ PollIdle

Next ==
    \/ \E body \in Bodies : Request(body)
    \/ \E i \in 1..MaxSymbols, o \in Outcomes : QuoteCallback(i, o)
    \/ \E i \in 1..MaxSymbols : ItemTimeout(i)
    \/ OverallTimeout
    \/ AdvanceClock

vars == <<srvVars, pollVars>>

Spec == Init /\ [][Next]_vars

PollInit == SrvIdle /\ PollIdle

PollNext ==
    \/ Start
    \/ Tick
    \/ \E k \in 1..MaxCycles, r \in HttpResults : ResponseArrives(k, r)
    \/ \E k \in 1..MaxCycles : RequestTimesOut(k)
    \/ Stop
    \/ AdvanceNow

PollSpec == PollInit /\ [][PollNext]_vars

-----------------------------------------------------------------------------
(* Properties of POST /quotes, checked under Spec                          *)

\* The request passed the checks of lines 78-90 and was fanned out.
FannedOut == symbols # <<>>

Answered == response # Absent

Quotes == response[1].quotes[1]

Occurrences(q, s) == Cardinality({k \in DOMAIN q : q[k].symbol = s})

Requested == {symbols[k] : k \in DOMAIN symbols}

\* C1: the envelope returned for a non-empty symbol array, repeated symbols
\* included, holds each distinct requested symbol exactly once.
C1_EachSymbolOnce ==
    (FannedOut /\ Answered) =>
        \A s \in Requested : Occurrences(Quotes, s) = 1

\* C2: when the overall timer fires before the join completes, only the
\* symbols whose guard had not settled are reported as timed out; a guard
\* that had settled keeps its own result in the envelope.
C2_SettledKeepResult ==
    (FannedOut /\ Answered /\ response[1].status = 504) =>
        \A k \in Indices :
            IF promise[k] # Absent
            THEN Quotes[k] = promise[k][1]
            ELSE Quotes[k] = TimeoutEntry(symbols[k])

\* C7: a guard settles exactly once, with the outcome of the event that
\* came first: after its timer its result is the timeout failure for good
\* and no further upstream call is made; after its callback the timer is
\* cancelled and the result is never the timeout failure.
C7_GuardSettlesOnce ==
    \A i \in Indices :
        /\ settles[i] <= 1
        /\ first[i] # "none" => settles[i] = 1
        /\ first[i] = "timer" =>
              /\ promise[i] = Some(TimeoutEntry(symbols[i]))
              /\ upstreamCalls = Len(symbols)
        /\ first[i] = "callback" =>
              /\ timer[i] = "cleared"
              /\ promise[i] # Some(TimeoutEntry(symbols[i]))

\* The symbol collection of the request is missing or empty.
NoSymbols ==
    \/ ~reqBody[1].present
    \/ reqBody[1].kind # "array"
    \/ Len(reqBody[1].arr) = 0

\* The status the response carries according to section 6 of the spec.
StatusBySpec ==
    IF ~finnhubClient THEN 503
    ELSE IF NoSymbols THEN 400
    ELSE IF ~AllSettled(promise) THEN 504
    ELSE 200

\* C8: the status is 503 without an upstream client, 400 for a missing or
\* empty symbol collection, 504 if the overall deadline elapsed before the
\* join, 200 otherwise; no other status is produced.
C8_StatusTaxonomy == Answered => response[1].status = StatusBySpec

\* Every upstream call of the batch takes longer than the overall deadline:
\* the deadline has passed and no callback has been made.
AllCallsSlow ==
    /\ FannedOut
    /\ clock > OverallTimeoutMs
    /\ \A i \in Indices : call[i] = "inflight"

AllTimeouts == \A k \in Indices : Quotes[k] = TimeoutEntry(symbols[k])

\* C9 as stated: when every upstream call takes longer than the 3000 ms
\* overall deadline, the response has status 504 and every entry is a
\* timeout failure.
C9_SlowBatchIs504 ==
    AllCallsSlow => (Answered /\ response[1].status = 504 /\ AllTimeouts)

\* C9 as amended: when every upstream call takes longer than the 3000 ms
\* overall deadline, the join completes when the 2000 ms per-item timers
\* fire: the response has status 200, is sent at 2000 ms, and every entry
\* is a timeout failure.
C9_SlowBatchIs200 ==
    AllCallsSlow =>
        /\ Answered
        /\ response[1].status = 200
        /\ respTime = PerItemTimeoutMs
        /\ AllTimeouts

C9_Witness == AllCallsSlow /\ Answered /\ Len(symbols) = MaxSymbols

\* C10: a request that reached the fan-out is answered no later than the
\* overall deadline after dispatch, whatever the upstream calls do.
C10_AnsweredByDeadline ==
    FannedOut =>
        /\ ~Answered => clock <= OverallTimeoutMs
        /\ Answered => respTime <= OverallTimeoutMs

C10_Witness ==
    /\ FannedOut
    /\ Answered
    /\ respTime = OverallTimeoutMs
    /\ clock > OverallTimeoutMs
    /\ \E i \in Indices : call[i] = "inflight"

-----------------------------------------------------------------------------
(* Properties of the polling client, checked under PollSpec                *)

\* The response r carries a failed or timed-out result for symbol s.
FailedFor(r, s) ==
    \/ ~r.ok
    \/ /\ r.quotes # Absent
       /\ \E k \in DOMAIN r.quotes[1] :
             r.quotes[1][k].symbol = s /\ ~IsSuccess(r.quotes[1][k])

\* C3: if the cache holds an entry for s and a cycle delivers a failed or
\* timed-out result for s, whatever it delivers for the other symbols, the
\* entry for s is unchanged after that cycle's merge.
C3_StaleEntryKept ==
    lastResp # Absent =>
        \A s \in DOMAIN prevPrices :
            FailedFor(lastResp[1], s) =>
                s \in DOMAIN livePrices /\ livePrices[s] = prevPrices[s]

C5_NoMergeAfterStop ==
    [][session = "stopped" => livePrices' = livePrices]_vars

C5_Witness ==
    /\ session = "stopped"
    /\ \E h \in lateHandled :
          /\ h[2].ok
          /\ h[2].quotes # Absent
          /\ SuccessCount(h[2].quotes[1]) > 0

\* C6: once the session is stopped no new cycle is started: the interval
\* timer is cancelled and no request is issued.
C6_NoCycleAfterStop ==
    session = "stopped" =>
        /\ ~intervalOn
        /\ started = startedAtStop

C6_Witness ==
    /\ session = "stopped"
    /\ now > nextTick
    /\ started < MaxCycles

-----------------------------------------------------------------------------
(* Further properties of POST /quotes, checked under Spec                  *)

\* The request carries an empty symbol array.
EmptyRequest ==
    /\ reqBody # Absent
    /\ reqBody[1].present
    /\ reqBody[1].kind = "array"
    /\ Len(reqBody[1].arr) = 0

\* C11 as stated: a request with an empty symbol set returns an empty
\* envelope at once and is not treated as an error.
C11_EmptyIsEmptyEnvelope ==
    EmptyRequest =>
        /\ Answered
        /\ response[1].status = 200
        /\ response[1].quotes = Some(<<>>)

\* C11 as amended: a request with an empty symbol array is answered at
\* once, as an error: status 400 without an envelope, or, when the
\* upstream client is unavailable, status 503 with an empty envelope.
C11_EmptyIsRejected ==
    EmptyRequest =>
        /\ Answered
        /\ respTime = 0
        /\ pc = "done"
        /\ IF finnhubClient
           THEN response[1].status = 400 /\ response[1].quotes = Absent
           ELSE response[1].status = 503 /\ response[1].quotes = Some(<<>>)

C11_Witness == EmptyRequest /\ finnhubClient /\ Answered

\* The callback of call i came before its timer and reported no error.
NoErrorCallback(i) ==
    /\ first[i] = "callback"
    /\ delivered[i] # Absent
    /\ delivered[i][1].error = Absent

HasNumericC(o) == o.data # Absent /\ o.data[1].c # Absent

HasNonZeroC(o) == HasNumericC(o) /\ o.data[1].c[1] # 0

SuccessEntry(s, o) == Entry(s, o.data, Absent)

InvalidPayloadEntry(s) == Entry(s, Absent, Some(<<"No price data available">>))

\* C12 as stated: a callback without error yields a Success entry if and
\* only if its payload carries a numeric c, 0 included; every other payload
\* yields the invalid-payload failure.
C12_NumericPriceIsSuccess ==
    \A i \in Indices :
        NoErrorCallback(i) =>
            IF HasNumericC(delivered[i][1])
            THEN promise[i] = Some(SuccessEntry(symbols[i], delivered[i][1]))
            ELSE promise[i] = Some(InvalidPayloadEntry(symbols[i]))

\* C12 as amended: a callback without error yields a Success entry if and
\* only if its payload carries a c that is truthy (present and not 0); a
\* payload with c = 0, a payload without c and a missing payload yield the
\* invalid-payload failure.
C12_NonZeroPriceIsSuccess ==
    \A i \in Indices :
        NoErrorCallback(i) =>
            IF HasNonZeroC(delivered[i][1])
            THEN promise[i] = Some(SuccessEntry(symbols[i], delivered[i][1]))
            ELSE promise[i] = Some(InvalidPayloadEntry(symbols[i]))

C12_Witness ==
    \E i \in Indices :
        /\ NoErrorCallback(i)
        /\ HasNumericC(delivered[i][1])
        /\ delivered[i][1].data[1].c = Some(0)
        /\ promise[i] = Some(InvalidPayloadEntry(symbols[i]))

\* C16: every entry of an envelope produced by the fan-out has a symbol
\* and exactly one of data and error; an entry with data has a present,
\* usable current price c, taken from the upstream payload.
C16_EntryShape ==
    (FannedOut /\ Answered) =>
        \A k \in Indices :
            /\ Quotes[k].symbol = symbols[k]
            /\ (Quotes[k].data = Absent) # (Quotes[k].error = Absent)
            /\ Quotes[k].data # Absent =>
                  /\ Quotes[k].data[1].c # Absent
                  /\ Quotes[k].data[1].c[1] # 0
                  /\ delivered[k] # Absent
                  /\ Quotes[k].data = delivered[k][1].data

C16_Witness ==
    /\ FannedOut
    /\ Answered
    /\ \E k \in Indices : Quotes[k].data # Absent
    /\ \E k \in Indices : Quotes[k].error # Absent
    /\ \E k \in Indices :
          delivered[k] # Absent /\ delivered[k][1].data # Absent
             /\ ~HasNonZeroC(delivered[k][1])

\* The three per-symbol cases of the scenario: the call returned a priced
\* payload before its deadline, the call did not return within the per-item
\* deadline, the call returned an upstream error with a message.
ReturnedPriced(k) ==
    /\ first[k] = "callback"
    /\ delivered[k] # Absent
    /\ delivered[k][1].error = Absent
    /\ HasNonZeroC(delivered[k][1])

MissedDeadline(k) == first[k] = "timer"

ReturnedError(k) ==
    /\ first[k] = "callback"
    /\ delivered[k] # Absent
    /\ delivered[k][1].error # Absent
    /\ delivered[k][1].error[1].hasMessage

ScenarioBatch ==
    /\ FannedOut
    /\ Answered
    /\ \A k \in Indices :
          ReturnedPriced(k) \/ MissedDeadline(k) \/ ReturnedError(k)

NotFoundNeverLogged == \A l \in errorLog : ~Includes(l[2], "Not Found")

C19_RejectedMakesNoCall ==
    (reqBody # Absent /\ (~finnhubClient \/ NoSymbols)) =>
        /\ Answered
        /\ response[1].status # 200
        /\ upstreamCalls = 0

C19_Witness ==
    /\ reqBody # Absent
    /\ ~finnhubClient
    /\ reqBody[1].kind = "array"
    /\ Len(reqBody[1].arr) = 2
    /\ Answered
    /\ response[1].status = 503
    /\ upstreamCalls = 0

\* C20: when the join of the guards completes first (status 200), the i-th
\* entry of the envelope carries the i-th requested symbol and the outcome
\* of that symbol's own guard, whatever the order of callbacks and timers.
C20_EntryIsOwnOutcome ==
    (FannedOut /\ Answered /\ response[1].status = 200) =>
        /\ Len(Quotes) = Len(symbols)
        /\ \A k \in Indices :
              /\ Quotes[k].symbol = symbols[k]
              /\ promise[k] # Absent
              /\ Quotes[k] = promise[k][1]
              /\ first[k] = "timer" =>
                    Quotes[k].error = Some(<<"Request timeout">>)
              /\ first[k] = "callback" =>
                    /\ delivered[k] # Absent
                    /\ Quotes[k].data # Absent =>
                          Quotes[k].data = delivered[k][1].data
                    /\ Quotes[k].error # Absent =>
                          \/ delivered[k][1].error # Absent
                          \/ Quotes[k].error = Some(<<"No price data available">>)

C20_Witness ==
    /\ FannedOut
    /\ Answered
    /\ response[1].status = 200
    /\ Len(symbols) = 2
    /\ symbols[1] # symbols[2]
    /\ first[1] = "timer"
    /\ first[2] = "callback"
    /\ Quotes[1].error = Some(<<"Request timeout">>)
    /\ Quotes[2].data # Absent

-----------------------------------------------------------------------------
(* Further properties of the polling client, checked under PollSpec        *)

\* C13: every symbol with an entry in the live-price cache has produced a
\* Success result in an earlier cycle of the session; the cache starts
\* empty and no failure, timeout or transport error creates an entry.
C13_CacheOnlySucceeded ==
    /\ session = "init" => livePrices = <<>>
    /\ DOMAIN livePrices \subseteq succeeded

C13_Witness ==
    /\ livePrices # <<>>
    /\ lastResp # Absent
    /\ \E s \in Symbols \ succeeded : FailedFor(lastResp[1], s)

Pending == {k \in Cycles : req[k] = "pending"}

\* C14: at most one cycle of the session is in flight at any time; a new
\* cycle never starts while the request of an earlier one is pending.
C14_OneCycleInFlight ==
    /\ Cardinality(Pending) <= 1
    /\ \A k \in Cycles : k < started => req[k] = "settled"

C14_Witness ==
    /\ started >= 2
    /\ req[started] = "pending"
    /\ now > reqStart[started]

\* The response r yields no successful entry.
NoSuccess(r) == ~r.ok \/ r.quotes = Absent \/ SuccessCount(r.quotes[1]) = 0

\* C15: a cycle without a successful entry (all entries failed, or the
\* request failed) leaves the cache as it was and does not end the
\* session: the interval timer stays registered and later ticks start
\* cycles.
C15_FailedCycleSkipsUpdate ==
    (lastResp # Absent /\ NoSuccess(lastResp[1])) =>
        /\ livePrices = prevPrices
        /\ session = "running" => (isMounted /\ intervalOn)
        /\ (session = "running" /\ now >= nextTick /\ started < MaxCycles)
              => ENABLED Tick

C15_Witness ==
    /\ lastResp # Absent
    /\ NoSuccess(lastResp[1])
    /\ livePrices # <<>>
    /\ started >= 2
    /\ req[started] = "pending"
    /\ lastMerged["AAPL"] < started - 1

\* C17: starting the session starts one cycle at once; the following
\* cycles start at a fixed interval of 10000 ms between cycle starts,
\* whenever the earlier cycle completed.
C17_FixedRateCycles ==
    session # "init" =>
        /\ started >= 1
        /\ \A k \in Cycles : reqStart[k] = (k - 1) * 10000
        /\ (session = "running" /\ started < MaxCycles) =>
              now <= started * 10000

C17_Witness ==
    /\ started >= 3
    /\ req[started] = "pending"
    /\ session = "running"

\* The symbols of the entries of r that have data, no error and a non-zero
\* current price.
SucceededIn(r) ==
    IF r.ok /\ r.quotes # Absent
    THEN { r.quotes[1][k].symbol : k \in
             {j \in DOMAIN r.quotes[1] :
                 /\ r.quotes[1][j].data # Absent
                 /\ r.quotes[1][j].error = Absent
                 /\ r.quotes[1][j].data[1].c # Absent
                 /\ r.quotes[1][j].data[1].c[1] # 0} }
    ELSE {}

\* A step in which a mounted component handles the response of a cycle.
HandlesResponse ==
    /\ isMounted
    /\ \E k \in Cycles : req[k] = "pending" /\ req'[k] = "settled"
    /\ lastResp' # Absent

\* C21: after a merge of a cycle with at least one successful entry, the
\* key set of the live-price cache is exactly the set of symbols that
\* succeeded in that cycle: the cache is replaced by the cycle's success
\* map, entries of earlier cycles are not kept.
C21_CacheIsCycleSuccessMap ==
    [][(HandlesResponse /\ SucceededIn(lastResp'[1]) # {}) =>
          DOMAIN livePrices' = SucceededIn(lastResp'[1])]_vars

C21_Witness ==
    /\ session = "running"
    /\ lastResp # Absent
    /\ SucceededIn(lastResp[1]) # {}
    /\ DOMAIN livePrices = SucceededIn(lastResp[1])
    /\ DOMAIN prevPrices \ DOMAIN livePrices # {}
    /\ Pending = {}

====
